---------------------------- MODULE Spec2Model ----------------------------
(***************************************************************************)
(* A model of the create-atsdc-stack command line scaffolder               *)
(* (src/unnamed/part_001): the resolution of the argument list and of the  *)
(* interactive prompts into an options record, and createProject, which    *)
(* materialises the project directory from the template.                   *)
(*                                                                         *)
(* The process is single threaded.  Each action is one stretch of the      *)
(* program between two suspension points (a prompt, a subprocess) or       *)
(* between two numbered steps of createProject; pc is the position.        *)
(*                                                                         *)
(* Strings are TLA+ strings.  The string functions of the program          *)
(* (trim, toLowerCase, startsWith, split, the project name regex) are      *)
(* computed on the characters of a string, which CharTable lists for       *)
(* every string the model uses.                                            *)
(*                                                                         *)
(* Three further specifications stand beside that of the program run:      *)
(* CopySpec follows copyDirectory call by call, PureSpec applies           *)
(* generateAstroConfig and generateExcerpt (src/unnamed/part_003) to the   *)
(* inputs of a bounded set, and PostsSpec is the POST and PUT handlers of  *)
(* /api/posts (src/unnamed/part_002) over the posts table.                 *)
(***************************************************************************)
EXTENDS Integers, Naturals, Sequences, FiniteSets, TLC

VARIABLES
    args,             \* process.argv.slice(2)
    pc,               \* position of the process
    projectName,      \* let projectName
    shouldInstall,    \* let shouldInstall
    shouldSetupDb,    \* let shouldSetupDb
    selectedAdapter,  \* let selectedAdapter
    fs,               \* the file system: path -> node
    prompts,          \* the questions asked so far, in order
    lastLine,         \* the line typed at the latest prompt
    procs,            \* the subprocesses started so far, in order
    out,              \* the kinds of message written to the terminal
    exitCode,         \* <<status>> once the process has exited, <<>> before
    frames,           \* the calls of copyDirectory in progress, innermost last
    posts,            \* the posts table: id -> row
    clock,            \* the time new Date() gives, in requests handled
    response,         \* the latest request to /api/posts and its status
    call              \* a call of a pure function, and its value once returned

\* The state of the command line program.
cliVars == <<args, pc, projectName, shouldInstall, shouldSetupDb,
             selectedAdapter, fs, prompts, lastLine, procs, out, exitCode>>

\* The state of /api/posts.
apiVars == <<posts, clock, response>>

\* What a run of the command line program leaves alone.
otherVars == <<frames, posts, clock, response, call>>

vars == <<args, pc, projectName, shouldInstall, shouldSetupDb,
          selectedAdapter, fs, prompts, lastLine, procs, out, exitCode,
          frames, posts, clock, response, call>>

-----------------------------------------------------------------------------
(* Bounds *)

\* The longest argument list drawn from Tokens.
MaxArgs == 2

-----------------------------------------------------------------------------
(* JavaScript values *)

Undefined == "<undefined>"
Null == "<null>"

\* A string is falsy when it is empty; undefined and null are falsy.
Truthy(v) == v # Undefined /\ v # Null /\ v # ""

-----------------------------------------------------------------------------
(* Strings *)

CharTable ==
    ("" :> <<>>)
    @@ (" " :> <<" ">>)
    @@ ("-" :> <<"-">>)
    @@ ("my-app" :> <<"m", "y", "-", "a", "p", "p">>)
    @@ (" my-app " :> <<" ", "m", "y", "-", "a", "p", "p", " ">>)
    @@ ("my.app" :> <<"m", "y", ".", "a", "p", "p">>)
    @@ ("my app" :> <<"m", "y", " ", "a", "p", "p">>)
    @@ ("blog_2" :> <<"b", "l", "o", "g", "_", "2">>)
    @@ ("--install" :> <<"-", "-", "i", "n", "s", "t", "a", "l", "l">>)
    @@ ("-i" :> <<"-", "i">>)
    @@ ("--setup-db" :> <<"-", "-", "s", "e", "t", "u", "p", "-", "d", "b">>)
    @@ ("--db" :> <<"-", "-", "d", "b">>)
    @@ ("--adapter" :> <<"-", "-", "a", "d", "a", "p", "t", "e", "r">>)
    @@ ("-a" :> <<"-", "a">>)
    @@ ("--help" :> <<"-", "-", "h", "e", "l", "p">>)
    @@ ("-h" :> <<"-", "h">>)
    @@ ("--version" :> <<"-", "-", "v", "e", "r", "s", "i", "o", "n">>)
    @@ ("-v" :> <<"-", "v">>)
    @@ ("vercel" :> <<"v", "e", "r", "c", "e", "l">>)
    @@ ("netlify" :> <<"n", "e", "t", "l", "i", "f", "y">>)
    @@ ("cloudflare" :> <<"c", "l", "o", "u", "d", "f", "l", "a", "r", "e">>)
    @@ ("node" :> <<"n", "o", "d", "e">>)
    @@ ("static" :> <<"s", "t", "a", "t", "i", "c">>)
    @@ ("Vercel" :> <<"V", "e", "r", "c", "e", "l">>)
    @@ ("Netlify" :> <<"N", "e", "t", "l", "i", "f", "y">>)
    @@ ("Cloudflare" :> <<"C", "l", "o", "u", "d", "f", "l", "a", "r", "e">>)
    @@ ("Node" :> <<"N", "o", "d", "e">>)
    @@ ("static (no adapter)" :> <<"s", "t", "a", "t", "i", "c", " ", "(", "n", "o", " ", "a", "d", "a", "p", "t", "e", "r", ")">>)
    @@ ("Static (no adapter)" :> <<"S", "t", "a", "t", "i", "c", " ", "(", "n", "o", " ", "a", "d", "a", "p", "t", "e", "r", ")">>)
    @@ ("bogus" :> <<"b", "o", "g", "u", "s">>)
    @@ ("constructor" :> <<"c", "o", "n", "s", "t", "r", "u", "c", "t", "o", "r">>)
    @@ ("y" :> <<"y">>)
    @@ ("yes" :> <<"y", "e", "s">>)
    @@ ("YES" :> <<"Y", "E", "S">>)
    @@ (" YES " :> <<" ", "Y", "E", "S", " ">>)
    @@ ("n" :> <<"n">>)
    @@ ("1" :> <<"1">>)
    @@ ("2" :> <<"2">>)
    @@ ("3" :> <<"3">>)
    @@ ("4" :> <<"4">>)
    @@ ("5" :> <<"5">>)
    @@ ("9" :> <<"9">>)
    @@ ("@astrojs/" :> <<"@", "a", "s", "t", "r", "o", "j", "s", "/">>)
    @@ ("@astrojs/vercel" :> <<"@", "a", "s", "t", "r", "o", "j", "s", "/", "v", "e", "r", "c", "e", "l">>)
    @@ ("@astrojs/netlify" :> <<"@", "a", "s", "t", "r", "o", "j", "s", "/", "n", "e", "t", "l", "i", "f", "y">>)
    @@ ("@astrojs/cloudflare" :> <<"@", "a", "s", "t", "r", "o", "j", "s", "/", "c", "l", "o", "u", "d", "f", "l", "a", "r", "e">>)
    @@ ("@astrojs/node" :> <<"@", "a", "s", "t", "r", "o", "j", "s", "/", "n", "o", "d", "e">>)

Strings == DOMAIN CharTable

Chars(s) == CharTable[s]

\* The string with the given characters.
Str(cs) == CHOOSE s \in Strings : CharTable[s] = cs

UpperLetters ==
    <<"A", "B", "C", "D", "E", "F", "G", "H", "I", "J", "K", "L", "M",
      "N", "O", "P", "Q", "R", "S", "T", "U", "V", "W", "X", "Y", "Z">>

LowerLetters ==
    <<"a", "b", "c", "d", "e", "f", "g", "h", "i", "j", "k", "l", "m",
      "n", "o", "p", "q", "r", "s", "t", "u", "v", "w", "x", "y", "z">>

Digits == {"0", "1", "2", "3", "4", "5", "6", "7", "8", "9"}

Range(f) == {f[i] : i \in DOMAIN f}

LowerChar(c) ==
    IF \E i \in DOMAIN UpperLetters : UpperLetters[i] = c
    THEN LowerLetters[CHOOSE i \in DOMAIN UpperLetters : UpperLetters[i] = c]
    ELSE c

\* String.prototype.toLowerCase
ToLowerCase(s) == Str([i \in DOMAIN Chars(s) |-> LowerChar(Chars(s)[i])])

\* String.prototype.startsWith
StartsWith(s, prefix) ==
    LET cs == Chars(s)
        ps == Chars(prefix)
    IN Len(ps) <= Len(cs) /\ SubSeq(cs, 1, Len(ps)) = ps

\* String.prototype.trim, for the blank the model types.
Trim(s) ==
    LET cs == Chars(s)
        inked == {i \in DOMAIN cs : cs[i] # " "}
    IN IF inked = {} THEN ""
       ELSE LET lo == CHOOSE i \in inked : \A j \in inked : i <= j
                hi == CHOOSE i \in inked : \A j \in inked : j <= i
            IN Str(SubSeq(cs, lo, hi))

\* s.split(' ')[0]
FirstWord(s) ==
    LET cs == Chars(s)
        blanks == {i \in DOMAIN cs : cs[i] = " "}
    IN IF blanks = {} THEN s
       ELSE Str(SubSeq(cs, 1, (CHOOSE i \in blanks : \A j \in blanks : i <= j) - 1))

\* Template literal `${a}${b}`
Concat(a, b) == Str(Chars(a) \o Chars(b))

\* /^[a-z0-9-_]+$/i.test(s)
ProjectNameRegexTest(s) ==
    LET cs == Chars(s)
    IN /\ Len(cs) >= 1
       /\ \A i \in DOMAIN cs :
            LowerChar(cs[i]) \in Range(LowerLetters) \cup Digits \cup {"-", "_"}

-----------------------------------------------------------------------------
(* Objects: a property read finds an own property, else one inherited from *)
(* Object.prototype.                                                       *)

ObjectPrototypeKeys ==
    {"constructor", "__proto__", "hasOwnProperty", "isPrototypeOf",
     "propertyIsEnumerable", "toLocaleString", "toString", "valueOf",
     "__defineGetter__", "__defineSetter__", "__lookupGetter__",
     "__lookupSetter__"}

\* obj[key] is not undefined.
JsHas(obj, key) == key \in DOMAIN obj \/ key \in ObjectPrototypeKeys

\* What the program reads of a value inherited from Object.prototype: its
\* name, and no value and no pkg property.
InheritedValue(key) ==
    [name  |-> IF key = "constructor" THEN "Object"
               ELSE IF key = "__proto__" THEN Undefined ELSE key,
     value |-> Undefined,
     pkg   |-> Undefined]

\* obj[key], where JsHas(obj, key).
JsGet(obj, key) == IF key \in DOMAIN obj THEN obj[key] ELSE InheritedValue(key)

-----------------------------------------------------------------------------
(* Adapters *)

AdapterValues == {"vercel", "netlify", "cloudflare", "node", "static"}

createAdapter(name, value, pkg) ==
    LET adapterValue == IF Truthy(value) THEN value
                        ELSE FirstWord(ToLowerCase(name))
        adapterPkg == IF pkg # Undefined THEN pkg
                      ELSE IF adapterValue = "static" THEN Null
                      ELSE Concat("@astrojs/", adapterValue)
    IN [name |-> name, value |-> adapterValue, pkg |-> adapterPkg]

\* const adapters of promptAdapter
adapters ==
    ("1" :> createAdapter("Vercel", Null, Undefined))
    @@ ("2" :> createAdapter("Netlify", Null, Undefined))
    @@ ("3" :> createAdapter("Cloudflare", Null, Undefined))
    @@ ("4" :> createAdapter("Node", Null, Undefined))
    @@ ("5" :> createAdapter("Static (no adapter)", Null, Undefined))

\* promptAdapter, given the line the user types: the adapter returned and
\* whether the invalid-choice warning is written.
promptAdapter(line) ==
    LET answer == Trim(line)
        choice == IF Truthy(answer) THEN answer ELSE "1"
    IN IF ~JsHas(adapters, choice)
       THEN [selected |-> adapters["1"], warned |-> TRUE]
       ELSE [selected |-> JsGet(adapters, choice), warned |-> FALSE]

\* const validAdapters of main: the keys it sets to true
validAdapters == [k \in AdapterValues |-> TRUE]

\* const adapterMap of main
adapterMap ==
    ("vercel" :> createAdapter("Vercel", Null, Undefined))
    @@ ("netlify" :> createAdapter("Netlify", Null, Undefined))
    @@ ("cloudflare" :> createAdapter("Cloudflare", Null, Undefined))
    @@ ("node" :> createAdapter("Node", Null, Undefined))
    @@ ("static" :> createAdapter("Static (no adapter)", Null, Undefined))

NoAdapter == [name |-> Undefined, value |-> Undefined, pkg |-> Undefined]

-----------------------------------------------------------------------------
(* The generated configuration.  The five texts differ in the adapter      *)
(* import line, the output line and the adapter initialisation; a text is  *)
(* the record of these three ("" where the text has no such line).         *)

configs ==
    ("vercel" :> [type |-> "config",
                  adapterImport |-> "import vercel from '@astrojs/vercel/serverless';",
                  output |-> "output: 'server',",
                  adapterInit |-> "adapter: vercel(),"])
    @@ ("netlify" :> [type |-> "config",
                  adapterImport |-> "import netlify from '@astrojs/netlify';",
                  output |-> "output: 'server',",
                  adapterInit |-> "adapter: netlify(),"])
    @@ ("cloudflare" :> [type |-> "config",
                  adapterImport |-> "import cloudflare from '@astrojs/cloudflare';",
                  output |-> "output: 'server',",
                  adapterInit |-> "adapter: cloudflare(),"])
    @@ ("node" :> [type |-> "config",
                  adapterImport |-> "import node from '@astrojs/node';",
                  output |-> "output: 'server',",
                  adapterInit |-> "adapter: node({ mode: 'standalone' }),"])
    @@ ("static" :> [type |-> "config",
                  adapterImport |-> "",
                  output |-> "output: 'static',",
                  adapterInit |-> ""])

\* generateAstroConfig that returns configs.vercel for every key
generateAstroConfig_AlwaysVercel(adapter) == configs["vercel"]

\* A value inherited from Object.prototype is truthy and is no text.
generateAstroConfig(adapter) ==
    IF JsHas(configs, adapter)
    THEN IF adapter \in DOMAIN configs THEN configs[adapter]
         ELSE [type |-> "notText", name |-> InheritedValue(adapter).name]
    ELSE configs["vercel"]

-----------------------------------------------------------------------------
(* The file system: a function from the paths that exist to their nodes.   *)
(* A path is the sequence of its names; a node is a directory or the       *)
(* content of a file.                                                      *)

Dir == [type |-> "dir"]

TextFile(text) == [type |-> "text", text |-> text]

\* A package.json that parses to an object: its name and its dependencies
\* object (deps, when it has one).
Manifest(name, hasDeps, deps) ==
    [type |-> "json", name |-> name, hasDeps |-> hasDeps, deps |-> deps]

NoDeps == [k \in {} |-> ""]

\* path.join(dir, name)
join(dir, name) == Append(dir, name)

\* existsSync(path)
existsSync(f, path) == path \in DOMAIN f

IsDirectory(f, path) == existsSync(f, path) /\ f[path] = Dir

\* mkdir(path, { recursive: true }): the directory and its missing parents.
mkdir(f, path) ==
    [q \in {SubSeq(path, 1, n) : n \in 1..Len(path)} \ DOMAIN f |-> Dir] @@ f

\* writeFile(path, data)
writeFile(f, path, data) == (path :> data) @@ f

\* copyFile that makes the destination an empty file
copyFile_Emptied(f, src, dest) == (dest :> [type |-> "text", text |-> ""]) @@ f

\* copyFile(src, dest)
copyFile(f, src, dest) == (dest :> f[src]) @@ f

\* readdir(path): the names of the entries of the directory.
readdir(f, path) ==
    {q[Len(path) + 1] : q \in {r \in DOMAIN f :
        Len(r) = Len(path) + 1 /\ SubSeq(r, 1, Len(path)) = path}}

RECURSIVE copyDirectory(_, _, _)
RECURSIVE CopyEntries(_, _, _, _)

\* The for loop of copyDirectory over the entries still to copy.
CopyEntries(f, src, dest, entries) ==
    IF entries = {} THEN f
    ELSE LET name == CHOOSE e \in entries : TRUE
             srcPath == join(src, name)
             destPath == join(dest, name)
             g == IF IsDirectory(f, srcPath)
                  THEN copyDirectory(f, srcPath, destPath)
                  ELSE copyFile(f, srcPath, destPath)
         IN CopyEntries(g, src, dest, entries \ {name})

copyDirectory(f, src, dest) ==
    LET g == mkdir(f, dest)
    IN CopyEntries(g, src, dest, readdir(g, src))

-----------------------------------------------------------------------------
(* Where things are *)

\* const templateDir = join(__dirname, '..'): the root of the installed package
templateDir == <<"pkg">>

\* const appDir = join(templateDir, 'app')
appDir == join(templateDir, "app")

\* process.cwd()
cwd == <<"work">>

\* filesToCopy with astro.config.mjs among the files copied
filesToCopy_WithAstroConfig ==
    <<"package.json", "astro.config.mjs", "tsconfig.json", "drizzle.config.ts",
      ".env.example", ".gitignore", "README.md">>

\* const filesToCopy
filesToCopy ==
    <<"package.json", "tsconfig.json", "drizzle.config.ts", ".env.example",
      ".gitignore", "README.md">>

\* const dirsToCopy
dirsToCopy == <<"src", "public">>

-----------------------------------------------------------------------------
(* The template the package ships in app/.  The program reads it and       *)
(* never writes it; what it holds is an input of the run.                  *)

TemplateName == "atsdc-stack-app"

TemplateManifests ==
    {Manifest(TemplateName, TRUE,
              ("@astrojs/vercel" :> "^8.0.0") @@ ("astro" :> "^4.16.0")),
     Manifest(TemplateName, TRUE,
              ("@astrojs/vercel" :> "^8.0.0") @@ ("@astrojs/netlify" :> "^5.5.0")),
     Manifest(TemplateName, TRUE, ("astro" :> "^4.16.0")),
     Manifest(TemplateName, TRUE, NoDeps),
     Manifest(TemplateName, FALSE, NoDeps)}

\* A template: the top-level files it has, its package.json, the directories it has.
ShippedTemplate ==
    [files    |-> Range(filesToCopy),
     manifest |-> Manifest(TemplateName, TRUE,
                     ("@astrojs/vercel" :> "^8.0.0") @@ ("astro" :> "^4.16.0")),
     dirs     |-> Range(dirsToCopy)]

\* The shipped template with another package.json, or less one top-level
\* file, or without top-level files, or without directories.
Templates ==
    {[ShippedTemplate EXCEPT !.manifest = m] : m \in TemplateManifests}
    \cup {[ShippedTemplate EXCEPT !.files = Range(filesToCopy) \ {x}] :
             x \in Range(filesToCopy)}
    \cup {[ShippedTemplate EXCEPT !.files = {}],
          [ShippedTemplate EXCEPT !.dirs = {}]}

\* The function with the given <<path, node>> pairs.
FsOf(pairs) == [q \in {e[1] : e \in pairs} |-> (CHOOSE e \in pairs : e[1] = q)[2]]

TemplateFs(t) ==
    FsOf({<<templateDir, Dir>>,
          <<join(templateDir, "package.json"),
            Manifest("create-atsdc-stack", TRUE, NoDeps)>>,
          <<appDir, Dir>>,
          <<join(appDir, "astro.config.mjs"), TextFile("template astro.config.mjs")>>}
         \cup {<<join(appDir, x),
                 IF x = "package.json" THEN t.manifest ELSE TextFile(x)>> : x \in t.files}
         \cup (IF "src" \in t.dirs
               THEN {<<join(appDir, "src"), Dir>>,
                     <<join(appDir, "src") \o <<"env.d.ts">>, TextFile("env.d.ts")>>,
                     <<join(appDir, "src") \o <<"lib">>, Dir>>,
                     <<join(appDir, "src") \o <<"lib", "config.ts">>, TextFile("config.ts")>>}
               ELSE {})
         \cup (IF "public" \in t.dirs
               THEN {<<join(appDir, "public"), Dir>>,
                     <<join(appDir, "public") \o <<"favicon.svg">>, TextFile("favicon.svg")>>}
               ELSE {}))

\* The working directory, with or without a directory my-app made earlier.
WorkFs(existing) ==
    FsOf({<<cwd, Dir>>}
         \cup (IF existing
               THEN {<<join(cwd, "my-app"), Dir>>,
                     <<join(cwd, "my-app") \o <<"notes.txt">>, TextFile("notes")>>}
               ELSE {}))

-----------------------------------------------------------------------------
(* The inputs *)

Tokens ==
    {"my-app", "my.app", "--install", "-i", "--setup-db", "--db",
     "--adapter", "-a", "static", "Node", "bogus", "constructor",
     "--help", "-h", "--version", "-v"}

RECURSIVE SeqsUpTo(_, _)
SeqsUpTo(S, n) ==
    IF n = 0 THEN {<<>>}
    ELSE LET shorter == SeqsUpTo(S, n - 1)
         IN shorter \cup {Append(q, x) : q \in shorter, x \in S}

\* The command lines of the EXAMPLES section of the help text.
DocumentedExamples ==
    {<<>>,
     <<"my-app">>,
     <<"my-app", "--install">>,
     <<"my-app", "--install", "--setup-db">>,
     <<"my-app", "-i", "--db">>,
     <<"my-app", "--adapter", "netlify">>,
     <<"my-app", "--adapter", "static", "--install">>,
     <<"my-app", "-i", "--db", "-a", "vercel">>}

ArgLists == SeqsUpTo(Tokens, MaxArgs) \cup DocumentedExamples

\* The lines a user types at a prompt.
NameLines == {"", " ", "my-app", " my-app ", "my app", "my.app", "blog_2"}
YesNoLines == {"", "y", " YES ", "n"}
ChoiceLines == {"", "1", "2", "3", "4", "5", "9", "constructor"}

\* main reads the argument list and createProject the file system: every
\* argument list runs in an empty working directory against the shipped
\* template, and the documented command lines and the single arguments
\* against every template, with and without a directory my-app.
Init ==
    /\ \E t \in Templates, existing \in BOOLEAN :
         /\ \/ args \in ArgLists /\ t = ShippedTemplate /\ ~existing
            \/ args \in DocumentedExamples \cup SeqsUpTo(Tokens, 1)
         /\ fs = TemplateFs(t) @@ WorkFs(existing)
    /\ pc = "main"
    /\ projectName = Undefined
    /\ shouldInstall = FALSE
    /\ shouldSetupDb = FALSE
    /\ selectedAdapter = NoAdapter
    /\ prompts = <<>>
    /\ lastLine = Undefined
    /\ procs = <<>>
    /\ out = {}
    /\ exitCode = <<>>
    /\ frames = <<>>
    /\ posts = <<>>
    /\ clock = 0
    /\ response = <<>>
    /\ call = <<>>

-----------------------------------------------------------------------------
(* main: the argument list *)

\* args.includes(x)
includes(a, x) == \E i \in DOMAIN a : a[i] = x

\* The least member of a non-empty set of indices.
Least(S) == CHOOSE i \in S : \A j \in S : i <= j

\* helpRequested without the short flag
helpRequested_LongOnly(a) == Len(a) = 0 \/ includes(a, "--help")

\* args.length === 0 || args.includes('--help') || args.includes('-h')
helpRequested(a) == Len(a) = 0 \/ includes(a, "--help") \/ includes(a, "-h")

\* args.includes('--version') || args.includes('-v')
versionRequested(a) == includes(a, "--version") \/ includes(a, "-v")

installFlagPassed(a) == includes(a, "--install") \/ includes(a, "-i")

setupDbFlagPassed(a) == includes(a, "--setup-db") \/ includes(a, "--db")

\* args.findIndex(...), counted from 1; 0 where findIndex gives -1
adapterFlagIndex(a) ==
    LET hits == {i \in DOMAIN a : a[i] = "--adapter" \/ a[i] = "-a"}
    IN IF hits = {} THEN 0 ELSE Least(hits)

adapterFlagPassed(a) == adapterFlagIndex(a) # 0

\* let adapterValue
adapterValue(a) ==
    LET i == adapterFlagIndex(a) + 1
    IN IF adapterFlagPassed(a) /\ i \in DOMAIN a /\ Truthy(a[i])
       THEN ToLowerCase(a[i])
       ELSE Null

\* args.find(arg => !arg.startsWith('-') && arg !== adapterValue)
findProjectName(a) ==
    LET hits == {i \in DOMAIN a : ~StartsWith(a[i], "-") /\ a[i] # adapterValue(a)}
    IN IF hits = {} THEN Undefined ELSE a[Least(hits)]

\* const needsInteractive
needsInteractive(a) ==
    \/ ~Truthy(findProjectName(a))
    \/ ~installFlagPassed(a)
    \/ (~setupDbFlagPassed(a) /\ installFlagPassed(a))

\* promptUser: the answer to a typed line
promptUser(line) == Trim(line)

\* promptYesNo without toLowerCase
promptYesNo_CaseSensitive(line, defaultValue) ==
    LET answer == promptUser(line)
    IN IF ~Truthy(answer) THEN defaultValue
       ELSE answer = "y" \/ answer = "yes"

\* promptYesNo, given the typed line
promptYesNo(line, defaultValue) ==
    LET answer == promptUser(line)
    IN IF ~Truthy(answer) THEN defaultValue
       ELSE LET normalized == ToLowerCase(answer)
            IN normalized = "y" \/ normalized = "yes"

\* rl.question: the question is asked and a line is read.
Asked(question, line) ==
    /\ prompts' = Append(prompts, question)
    /\ lastLine' = line

\* process.exit(code)
Exit(code) == pc' = "exited" /\ exitCode' = <<code>>

\* The help text is printed and the process exits.
ShowHelp ==
    /\ pc = "main"
    /\ helpRequested(args)
    /\ out' = out \cup {"help"}
    /\ Exit(0)
    /\ UNCHANGED <<args, projectName, shouldInstall, shouldSetupDb,
                   selectedAdapter, fs, prompts, lastLine, procs>>
    /\ UNCHANGED otherVars

\* The version of the package's own package.json is printed.
ShowVersion ==
    /\ pc = "main"
    /\ ~helpRequested(args)
    /\ versionRequested(args)
    /\ existsSync(fs, join(templateDir, "package.json"))
    /\ out' = out \cup {"version"}
    /\ Exit(0)
    /\ UNCHANGED <<args, projectName, shouldInstall, shouldSetupDb,
                   selectedAdapter, fs, prompts, lastLine, procs>>
    /\ UNCHANGED otherVars

\* The flags are read and the project name is looked for.
ParseArgs ==
    /\ pc = "main"
    /\ ~helpRequested(args)
    /\ ~versionRequested(args)
    /\ projectName' = findProjectName(args)
    /\ out' = IF needsInteractive(args) /\ ~Truthy(projectName')
              THEN out \cup {"welcome"} ELSE out
    /\ pc' = IF ~Truthy(projectName') THEN "promptName" ELSE "resolveInstall"
    /\ UNCHANGED <<args, shouldInstall, shouldSetupDb, selectedAdapter, fs,
                   prompts, lastLine, procs, exitCode>>
    /\ UNCHANGED otherVars

\* if (!projectName): the name is asked for and validated.
PromptProjectName ==
    /\ pc = "promptName"
    /\ \E line \in NameLines :
         LET answer == promptUser(line)
         IN /\ Asked("projectName", line)
            /\ IF ~Truthy(answer)
               THEN /\ out' = out \cup {"error: name required"}
                    /\ Exit(1)
                    /\ UNCHANGED projectName
               ELSE IF ~ProjectNameRegexTest(answer)
               THEN /\ out' = out \cup {"error: name invalid"}
                    /\ Exit(1)
                    /\ projectName' = answer
               ELSE /\ projectName' = answer
                    /\ pc' = "resolveInstall"
                    /\ UNCHANGED <<out, exitCode>>
    /\ UNCHANGED <<args, shouldInstall, shouldSetupDb, selectedAdapter, fs, procs>>
    /\ UNCHANGED otherVars

\* let shouldInstall = installFlagPassed, with no prompt
InstallFromFlag ==
    /\ pc = "resolveInstall"
    /\ installFlagPassed(args)
    /\ shouldInstall' = TRUE
    /\ pc' = "resolveSetupDb"
    /\ UNCHANGED <<args, projectName, shouldSetupDb, selectedAdapter, fs,
                   prompts, lastLine, procs, out, exitCode>>
    /\ UNCHANGED otherVars

\* The install prompt with the default no.
PromptInstall_DefaultNo ==
    /\ pc = "resolveInstall"
    /\ ~installFlagPassed(args)
    /\ \E line \in YesNoLines :
         /\ shouldInstall' = promptYesNo(line, FALSE)
         /\ Asked("install", line)
    /\ pc' = "resolveSetupDb"
    /\ UNCHANGED <<args, projectName, shouldSetupDb, selectedAdapter, fs,
                   procs, out, exitCode>>
    /\ UNCHANGED otherVars

\* if (!installFlagPassed): 'Install dependencies now?', default yes
PromptInstall ==
    /\ pc = "resolveInstall"
    /\ ~installFlagPassed(args)
    /\ \E line \in YesNoLines :
         /\ shouldInstall' = promptYesNo(line, TRUE)
         /\ Asked("install", line)
    /\ pc' = "resolveSetupDb"
    /\ UNCHANGED <<args, projectName, shouldSetupDb, selectedAdapter, fs,
                   procs, out, exitCode>>
    /\ UNCHANGED otherVars

\* !setupDbFlagPassed alone: the question is put whatever install is.
setupDbPrompted_WithoutInstall(install, a) == ~setupDbFlagPassed(a)

\* shouldInstall && !setupDbFlagPassed
setupDbPrompted(install, a) == install /\ ~setupDbFlagPassed(a)

\* let shouldSetupDb = setupDbFlagPassed, with no prompt
SetupDbFromFlag ==
    /\ pc = "resolveSetupDb"
    /\ ~setupDbPrompted(shouldInstall, args)
    /\ shouldSetupDb' = setupDbFlagPassed(args)
    /\ pc' = "resolveAdapter"
    /\ UNCHANGED <<args, projectName, shouldInstall, selectedAdapter, fs,
                   prompts, lastLine, procs, out, exitCode>>
    /\ UNCHANGED otherVars

\* 'Set up the database now?', default no
PromptSetupDb ==
    /\ pc = "resolveSetupDb"
    /\ setupDbPrompted(shouldInstall, args)
    /\ \E line \in YesNoLines :
         /\ shouldSetupDb' = promptYesNo(line, FALSE)
         /\ Asked("setupDb", line)
    /\ pc' = "resolveAdapter"
    /\ UNCHANGED <<args, projectName, shouldInstall, selectedAdapter, fs,
                   procs, out, exitCode>>
    /\ UNCHANGED otherVars

\* if (adapterFlagPassed && adapterValue): the adapter named by the flag
AdapterFromFlag ==
    /\ pc = "resolveAdapter"
    /\ adapterFlagPassed(args) /\ Truthy(adapterValue(args))
    /\ IF JsHas(validAdapters, adapterValue(args))
       THEN /\ selectedAdapter' = JsGet(adapterMap, adapterValue(args))
            /\ out' = out \cup {"using adapter"}
       ELSE /\ selectedAdapter' = createAdapter("Vercel", Null, Undefined)
            /\ out' = out \cup {"warning: invalid adapter"}
    /\ pc' = "createProject"
    /\ UNCHANGED <<args, projectName, shouldInstall, shouldSetupDb, fs,
                   prompts, lastLine, procs, exitCode>>
    /\ UNCHANGED otherVars

\* else: the numbered menu
PromptAdapter ==
    /\ pc = "resolveAdapter"
    /\ ~(adapterFlagPassed(args) /\ Truthy(adapterValue(args)))
    /\ \E line \in ChoiceLines :
         LET r == promptAdapter(line)
         IN /\ selectedAdapter' = r.selected
            /\ out' = IF r.warned THEN out \cup {"warning: invalid choice"} ELSE out
            /\ Asked("adapter", line)
    /\ pc' = "createProject"
    /\ UNCHANGED <<args, projectName, shouldInstall, shouldSetupDb, fs,
                   procs, exitCode>>
    /\ UNCHANGED otherVars

\* const flags
flags ==
    [install     |-> shouldInstall,
     setupDb     |-> shouldSetupDb,
     adapter     |-> selectedAdapter.value,
     adapterInfo |-> selectedAdapter]

-----------------------------------------------------------------------------
(* createProject(projectName, flags) *)

\* const targetDir = join(process.cwd(), projectName)
targetDir == join(cwd, projectName)

\* The catch with process.exit(0): the failure ends the run as a success.
Fail_ExitZero ==
    /\ out' = out \cup {"error: failed to create project"}
    /\ Exit(0)

\* catch (error): 'Failed to create project', process.exit(1)
Fail ==
    /\ out' = out \cup {"error: failed to create project"}
    /\ Exit(1)

\* Step 1 without process.exit(1): the error is written and step 2 follows.
CheckDirectory_NoExit ==
    /\ pc = "createProject"
    /\ out' = IF join(cwd, projectName) \in DOMAIN fs
              THEN out \cup {"error: directory exists"} ELSE out
    /\ pc' = "step2"
    /\ UNCHANGED <<args, projectName, shouldInstall, shouldSetupDb,
                   selectedAdapter, fs, prompts, lastLine, procs, exitCode>>
    /\ UNCHANGED otherVars

\* Step 1: the directory must not exist.
CheckDirectory ==
    /\ pc = "createProject"
    /\ IF existsSync(fs, targetDir)
       THEN /\ out' = out \cup {"error: directory exists"}
            /\ Exit(1)
       ELSE /\ pc' = "step2"
            /\ UNCHANGED <<out, exitCode>>
    /\ UNCHANGED <<args, projectName, shouldInstall, shouldSetupDb,
                   selectedAdapter, fs, prompts, lastLine, procs>>
    /\ UNCHANGED otherVars

\* Step 2: mkdir(targetDir, { recursive: true })
CreateDirectory ==
    /\ pc = "step2"
    /\ fs' = mkdir(fs, targetDir)
    /\ out' = out \cup {"directory created"}
    /\ pc' = "step3"
    /\ UNCHANGED <<args, projectName, shouldInstall, shouldSetupDb,
                   selectedAdapter, prompts, lastLine, procs, exitCode>>
    /\ UNCHANGED otherVars

\* for (const file of filesToCopy), from the i-th file on
RECURSIVE CopyFilesFrom(_, _, _)
CopyFilesFrom(f, target, i) ==
    IF i > Len(filesToCopy) THEN f
    ELSE LET srcPath == join(appDir, filesToCopy[i])
             destPath == join(target, filesToCopy[i])
         IN CopyFilesFrom(IF existsSync(f, srcPath) THEN copyFile(f, srcPath, destPath)
                          ELSE f,
                          target, i + 1)

\* Step 3: the top-level files of the template that exist are copied.
CopyTemplateFiles ==
    /\ pc = "step3"
    /\ fs' = CopyFilesFrom(fs, targetDir, 1)
    /\ pc' = "generateConfig"
    /\ UNCHANGED <<args, projectName, shouldInstall, shouldSetupDb,
                   selectedAdapter, prompts, lastLine, procs, out, exitCode>>
    /\ UNCHANGED otherVars

\* options.adapter || 'vercel'
adapterOrDefault(options) ==
    IF Truthy(options.adapter) THEN options.adapter ELSE "vercel"

\* astro.config.mjs is written from generateAstroConfig.
GenerateConfig ==
    /\ pc = "generateConfig"
    /\ fs' = writeFile(fs, join(targetDir, "astro.config.mjs"),
                       generateAstroConfig(adapterOrDefault(flags)))
    /\ out' = out \cup {"generated astro.config.mjs"}
    /\ pc' = "copyDirs"
    /\ UNCHANGED <<args, projectName, shouldInstall, shouldSetupDb,
                   selectedAdapter, prompts, lastLine, procs, exitCode>>
    /\ UNCHANGED otherVars

\* for (const dir of dirsToCopy), from the i-th directory on
RECURSIVE CopyDirsFrom(_, _, _)
CopyDirsFrom(f, target, i) ==
    IF i > Len(dirsToCopy) THEN f
    ELSE LET srcPath == join(appDir, dirsToCopy[i])
             destPath == join(target, dirsToCopy[i])
         IN CopyDirsFrom(IF existsSync(f, srcPath) THEN copyDirectory(f, srcPath, destPath)
                         ELSE f,
                         target, i + 1)

\* src/ and public/ are copied.
CopyDirectories ==
    /\ pc = "copyDirs"
    /\ fs' = CopyDirsFrom(fs, targetDir, 1)
    /\ out' = out \cup {"template files copied"}
    /\ pc' = "step4"
    /\ UNCHANGED <<args, projectName, shouldInstall, shouldSetupDb,
                   selectedAdapter, prompts, lastLine, procs, exitCode>>
    /\ UNCHANGED otherVars

\* delete that removes nothing
Delete_Nothing(obj, key) == obj

\* delete obj[key]
Delete(obj, key) == [k \in DOMAIN obj \ {key} |-> obj[k]]

\* obj[key] is truthy, for an object of strings
TruthyAt(obj, key) == key \in DOMAIN obj /\ Truthy(obj[key])

\* Step 4, between JSON.parse and JSON.stringify: the manifest to write,
\* or threw when a property of undefined is read.
rewritePackageJson(packageJson, name, options) ==
    LET named == [packageJson EXCEPT !.name = name]
        adapterInfo == options.adapterInfo
    IN IF Truthy(adapterInfo.pkg)
       THEN LET deps0 == IF named.hasDeps THEN named.deps ELSE NoDeps
                version == IF TruthyAt(deps0, "@astrojs/vercel")
                           THEN deps0["@astrojs/vercel"] ELSE "^7.8.1"
                deps1 == (adapterInfo.pkg :> version) @@ deps0
                deps2 == IF adapterInfo.value # "vercel"
                            /\ TruthyAt(deps1, "@astrojs/vercel")
                         THEN Delete(deps1, "@astrojs/vercel") ELSE deps1
            IN [threw |-> FALSE,
                packageJson |-> [named EXCEPT !.hasDeps = TRUE, !.deps = deps2]]
       ELSE IF options.adapter = "static"
       THEN IF ~named.hasDeps
            THEN [threw |-> TRUE, packageJson |-> named]
            ELSE [threw |-> FALSE,
                  packageJson |->
                      IF TruthyAt(named.deps, "@astrojs/vercel")
                      THEN [named EXCEPT !.deps = Delete(named.deps, "@astrojs/vercel")]
                      ELSE named]
       ELSE [threw |-> FALSE, packageJson |-> named]

\* Step 4 followed by step 3 once more: the template files are copied again.
UpdatePackageJson_BackToCopy ==
    /\ pc = "step4"
    /\ LET packageJsonPath == join(targetDir, "package.json")
       IN IF ~existsSync(fs, packageJsonPath)
          THEN Fail /\ UNCHANGED fs
          ELSE LET r == rewritePackageJson(fs[packageJsonPath], projectName, flags)
               IN IF r.threw
                  THEN Fail /\ UNCHANGED fs
                  ELSE /\ fs' = writeFile(fs, packageJsonPath, r.packageJson)
                       /\ out' = out \cup {"package.json updated"}
                       /\ pc' = IF "package.json updated" \in out
                                THEN "step5" ELSE "step3"
                       /\ UNCHANGED exitCode
    /\ UNCHANGED <<args, projectName, shouldInstall, shouldSetupDb,
                   selectedAdapter, prompts, lastLine, procs>>
    /\ UNCHANGED otherVars

\* Step 4: package.json of the target is read, renamed, given the adapter
\* dependency and written back.
UpdatePackageJson ==
    /\ pc = "step4"
    /\ LET packageJsonPath == join(targetDir, "package.json")
       IN IF ~existsSync(fs, packageJsonPath)
          THEN Fail /\ UNCHANGED fs
          ELSE LET r == rewritePackageJson(fs[packageJsonPath], projectName, flags)
               IN IF r.threw
                  THEN Fail /\ UNCHANGED fs
                  ELSE /\ fs' = writeFile(fs, packageJsonPath, r.packageJson)
                       /\ out' = out \cup {"package.json updated"}
                       /\ pc' = "step5"
                       /\ UNCHANGED exitCode
    /\ UNCHANGED <<args, projectName, shouldInstall, shouldSetupDb,
                   selectedAdapter, prompts, lastLine, procs>>
    /\ UNCHANGED otherVars

\* Step 5 taking its else branch always: .env is never made.
CreateEnvFile_Skipped ==
    /\ pc = "step5"
    /\ out' = out \cup {"warning: no .env.example"}
    /\ pc' = "step6"
    /\ UNCHANGED <<args, projectName, shouldInstall, shouldSetupDb,
                   selectedAdapter, fs, prompts, lastLine, procs, exitCode>>
    /\ UNCHANGED otherVars

\* Step 5: .env is made from the target's .env.example, when it has one.
CreateEnvFile ==
    /\ pc = "step5"
    /\ LET envExamplePath == join(targetDir, ".env.example")
           envPath == join(targetDir, ".env")
       IN IF existsSync(fs, envExamplePath)
          THEN /\ fs' = copyFile(fs, envExamplePath, envPath)
               /\ out' = out \cup {".env created"}
          ELSE /\ out' = out \cup {"warning: no .env.example"}
               /\ UNCHANGED fs
    /\ pc' = "step6"
    /\ UNCHANGED <<args, projectName, shouldInstall, shouldSetupDb,
                   selectedAdapter, prompts, lastLine, procs, exitCode>>
    /\ UNCHANGED otherVars

\* execSync with one retry: a subprocess that fails is started once more.
Started_Retried(command, ok) ==
    IF ok THEN Append(procs, [command |-> command, ok |-> TRUE])
    ELSE procs \o <<[command |-> command, ok |-> FALSE],
                    [command |-> command, ok |-> FALSE]>>

\* execSync(command): the subprocess is started and waited for; it exits
\* with status 0 (ok) or the call throws.
Started(command, ok) == Append(procs, [command |-> command, ok |-> ok])

\* Step 6 without its try/catch: a failed npm install reaches the outer catch.
InstallDependencies_Uncaught ==
    /\ pc = "step6"
    /\ IF flags.install
       THEN \E ok \in BOOLEAN :
              /\ procs' = Started("npm install", ok)
              /\ IF ok
                 THEN /\ out' = out \cup {"dependencies installed"}
                      /\ pc' = "step7"
                      /\ UNCHANGED exitCode
                 ELSE Fail
       ELSE /\ pc' = "step7"
            /\ UNCHANGED <<procs, out, exitCode>>
    /\ UNCHANGED <<args, projectName, shouldInstall, shouldSetupDb,
                   selectedAdapter, fs, prompts, lastLine>>
    /\ UNCHANGED otherVars

\* Step 6: npm install, if asked for; its failure is caught and warned of.
InstallDependencies ==
    /\ pc = "step6"
    /\ IF flags.install
       THEN \E ok \in BOOLEAN :
              /\ procs' = Started("npm install", ok)
              /\ out' = out \cup (IF ok THEN {"dependencies installed"}
                                  ELSE {"warning: install failed"})
       ELSE UNCHANGED <<procs, out>>
    /\ pc' = "step7"
    /\ UNCHANGED <<args, projectName, shouldInstall, shouldSetupDb,
                   selectedAdapter, fs, prompts, lastLine, exitCode>>
    /\ UNCHANGED otherVars

\* if (options.setupDb)
databaseRequested_SetupDbOnly(options) == options.setupDb

\* if (options.setupDb && options.install)
databaseRequested(options) == options.setupDb /\ options.install

\* Step 7 without the look for .env: the push is started at once.
SetupDatabase_NoEnvCheck ==
    /\ pc = "step7"
    /\ IF databaseRequested(flags)
       THEN \E ok \in BOOLEAN :
              /\ procs' = Started("npm run db:push", ok)
              /\ out' = out \cup (IF ok THEN {"schema pushed"}
                                  ELSE {"error: schema push failed"})
       ELSE UNCHANGED <<procs, out>>
    /\ pc' = "summary"
    /\ UNCHANGED <<args, projectName, shouldInstall, shouldSetupDb,
                   selectedAdapter, fs, prompts, lastLine, exitCode>>
    /\ UNCHANGED otherVars

\* Step 7: setupDatabase(targetDir), if asked for.  It returns false
\* without a subprocess when .env is missing, and catches a failed push.
SetupDatabase ==
    /\ pc = "step7"
    /\ IF databaseRequested(flags)
       THEN IF ~existsSync(fs, join(targetDir, ".env"))
            THEN /\ out' = out \cup {"warning: no .env"}
                 /\ UNCHANGED procs
            ELSE \E ok \in BOOLEAN :
                   /\ procs' = Started("npm run db:push", ok)
                   /\ out' = out \cup (IF ok THEN {"schema pushed"}
                                       ELSE {"error: schema push failed"})
       ELSE UNCHANGED <<procs, out>>
    /\ pc' = "summary"
    /\ UNCHANGED <<args, projectName, shouldInstall, shouldSetupDb,
                   selectedAdapter, fs, prompts, lastLine, exitCode>>
    /\ UNCHANGED otherVars

\* The summary followed by step 8 whatever options.install is.
Summary_AlwaysLogin ==
    /\ pc = "summary"
    /\ out' = out \cup {"success"}
    /\ pc' = "step8"
    /\ UNCHANGED <<args, projectName, shouldInstall, shouldSetupDb,
                   selectedAdapter, fs, prompts, lastLine, procs, exitCode>>
    /\ UNCHANGED otherVars

\* 'Project created successfully!' and the next steps.  Without install
\* createProject returns here and the process ends.
Summary ==
    /\ pc = "summary"
    /\ out' = out \cup {"success"}
    /\ IF flags.install
       THEN pc' = "step8" /\ UNCHANGED exitCode
       ELSE Exit(0)
    /\ UNCHANGED <<args, projectName, shouldInstall, shouldSetupDb,
                   selectedAdapter, fs, prompts, lastLine, procs>>
    /\ UNCHANGED otherVars

\* Step 8: 'Login to Vercel now?', default yes, then npx vercel login.
VercelLogin ==
    /\ pc = "step8"
    /\ \E line \in YesNoLines :
         /\ Asked("vercelLogin", line)
         /\ IF promptYesNo(line, TRUE)
            THEN \E ok \in BOOLEAN :
                   /\ procs' = Started("npx vercel login", ok)
                   /\ out' = out \cup (IF ok THEN {"vercel login completed"}
                                       ELSE {"warning: vercel login failed"})
            ELSE /\ out' = out \cup {"login later"}
                 /\ UNCHANGED procs
    /\ Exit(0)
    /\ UNCHANGED <<args, projectName, shouldInstall, shouldSetupDb,
                   selectedAdapter, fs>>
    /\ UNCHANGED otherVars

-----------------------------------------------------------------------------

Next ==
    \/ ShowHelp
    \/ ShowVersion
    \/ ParseArgs
    \/ PromptProjectName
    \/ InstallFromFlag
    \/ PromptInstall
    \/ SetupDbFromFlag
    \/ PromptSetupDb
    \/ AdapterFromFlag
    \/ PromptAdapter
    \/ CheckDirectory
    \/ CreateDirectory
    \/ CopyTemplateFiles
    \/ GenerateConfig
    \/ CopyDirectories
    \/ UpdatePackageJson
    \/ CreateEnvFile
    \/ InstallDependencies
    \/ SetupDatabase
    \/ Summary
    \/ VercelLogin

Spec == Init /\ [][Next]_vars

-----------------------------------------------------------------------------
(* What the properties speak of *)

\* Some subprocess with this command was started.
WasStarted(command) == \E i \in DOMAIN procs : procs[i].command = command

\* The subprocess with this command was started and failed.
HasFailed(command) ==
    \E i \in DOMAIN procs : procs[i].command = command /\ ~procs[i].ok

\* The question was asked.
WasAsked(question) == \E i \in DOMAIN prompts : prompts[i] = question

\* createProject has been entered and gone past its first step.
Materialising ==
    pc \in {"step2", "step3", "generateConfig", "copyDirs", "step4", "step5",
            "step6", "step7", "summary", "step8"}

\* The run has ended with the success summary.
Succeeded == pc = "exited" /\ "success" \in out

\* The name contains a character outside [A-Za-z0-9_-].
HasForbiddenCharacter(name) ==
    \E i \in DOMAIN Chars(name) :
        LowerChar(Chars(name)[i]) \notin Range(LowerLetters) \cup Digits \cup {"-", "_"}

\* The paths below the working directory that the run has made.
MadeInCwd == {q \in DOMAIN fs : q[1] = cwd[1] /\ q \notin DOMAIN WorkFs(TRUE)}

AdapterPackages ==
    {"@astrojs/vercel", "@astrojs/netlify", "@astrojs/cloudflare", "@astrojs/node"}

-----------------------------------------------------------------------------
(* C1 *)

\* C1: for every project name matching [A-Za-z0-9_-]+ whose directory did
\* not exist, a run that enters createProject with a template that has a
\* package.json ends with the directory, holding a package.json whose name
\* is the project name.
C1_NamedProjectMade ==
    ( /\ pc = "exited"
      /\ projectName # Undefined
      /\ ProjectNameRegexTest(projectName)
      /\ "error: directory exists" \notin out
      /\ join(appDir, "package.json") \in DOMAIN fs )
    => /\ targetDir \in DOMAIN fs
       /\ join(targetDir, "package.json") \in DOMAIN fs
       /\ fs[join(targetDir, "package.json")].name = projectName

-----------------------------------------------------------------------------
(* C2 *)

\* C2: once the project name, from the argument list or from the prompt,
\* has a character outside [A-Za-z0-9_-], no directory is ever made and the
\* process exits with a status other than 0.
C2_InvalidNameRejected ==
    (projectName # Undefined /\ HasForbiddenCharacter(projectName))
    => /\ MadeInCwd = {}
       /\ pc = "exited" => exitCode # <<0>>

-----------------------------------------------------------------------------
(* C3 *)

\* C3: when createProject finds the directory of the project name, its next
\* step is exit with status 1: nothing in the file system is written and
\* no subprocess is started.
C3_ExistingDirectoryUntouched ==
    [][(pc = "createProject" /\ targetDir \in DOMAIN fs)
       => (pc' = "exited" /\ exitCode' = <<1>> /\ fs' = fs /\ procs' = procs)]_vars

\* A run stopped by the directory of an earlier run, left as it was.
C3_Witness ==
    /\ pc = "exited"
    /\ exitCode = <<1>>
    /\ "error: directory exists" \in out
    /\ projectName = "my-app"
    /\ fs[join(targetDir, "notes.txt")] = TextFile("notes")

-----------------------------------------------------------------------------
(* C4 *)

HelpOrVersionFlag ==
    \E i \in DOMAIN args : args[i] \in {"--help", "-h", "--version", "-v"}

\* C4: with --help, -h, --version or -v anywhere in the argument list the
\* process goes from its start to exit 0 having printed the help text or
\* the version, with no prompt, no directory made and no subprocess.
C4_HelpVersionShortCircuit ==
    HelpOrVersionFlag
    => /\ pc \in {"main", "exited"}
       /\ prompts = <<>>
       /\ procs = <<>>
       /\ MadeInCwd = {}
       /\ pc = "exited" => (exitCode = <<0>> /\ out \in {{"help"}, {"version"}})

\* The version printed although a project name and --install come first.
C4_Witness ==
    /\ pc = "exited"
    /\ exitCode = <<0>>
    /\ out = {"version"}
    /\ Len(args) = 2
    /\ args[1] \in {"my-app", "--install"}

-----------------------------------------------------------------------------
(* C5 *)

ExpectedAdapterImport ==
    ("vercel" :> "import vercel from '@astrojs/vercel/serverless';")
    @@ ("netlify" :> "import netlify from '@astrojs/netlify';")
    @@ ("cloudflare" :> "import cloudflare from '@astrojs/cloudflare';")
    @@ ("node" :> "import node from '@astrojs/node';")
    @@ ("static" :> "")

ExpectedAdapterInit ==
    ("vercel" :> "adapter: vercel(),")
    @@ ("netlify" :> "adapter: netlify(),")
    @@ ("cloudflare" :> "adapter: cloudflare(),")
    @@ ("node" :> "adapter: node({ mode: 'standalone' }),")
    @@ ("static" :> "")

\* C5: after a successful run with one of the five adapters, the target's
\* astro.config.mjs is the text generateAstroConfig gives for it, with the
\* import and the initialisation of that adapter (none for static), and is
\* not the template's astro.config.mjs.
C5_ConfigOfAdapter ==
    (Succeeded /\ selectedAdapter.value \in AdapterValues)
    => LET written == fs[join(targetDir, "astro.config.mjs")]
       IN /\ written = generateAstroConfig(selectedAdapter.value)
          /\ written.type = "config"
          /\ written.adapterImport = ExpectedAdapterImport[selectedAdapter.value]
          /\ written.adapterInit = ExpectedAdapterInit[selectedAdapter.value]
          /\ written # fs[join(appDir, "astro.config.mjs")]

\* A successful run with the node adapter taken from the flag.
C5_Witness ==
    /\ Succeeded
    /\ selectedAdapter.value = "node"
    /\ adapterFlagPassed(args)
    /\ fs[join(targetDir, "astro.config.mjs")].adapterImport = "import node from '@astrojs/node';"

-----------------------------------------------------------------------------
(* C6 *)

\* C6: with the static adapter, once step 4 is over for a template that
\* has a package.json, package.json has been rewritten and its
\* dependencies hold no @astrojs adapter package.
C6_StaticManifestHasNoAdapter ==
    ( /\ selectedAdapter.value = "static"
      /\ join(appDir, "package.json") \in DOMAIN fs
      /\ pc \in {"step5", "step6", "step7", "summary", "step8", "exited"}
      /\ "template files copied" \in out )
    => /\ "package.json updated" \in out
       /\ DOMAIN fs[join(targetDir, "package.json")].deps \cap AdapterPackages = {}

-----------------------------------------------------------------------------
(* C7 *)

InstallFlagOnly ==
    /\ \E i \in DOMAIN args : args[i] \in {"--install", "-i"}
    /\ ~\E i \in DOMAIN args : args[i] \in {"--setup-db", "--db"}

\* setupDatabase has been entered: it warned of the missing .env or
\* started the push.
DatabaseStepTaken == WasStarted("npm run db:push") \/ "warning: no .env" \in out

\* C7, as claimed: with --install and without --setup-db the database step
\* is never taken.
C7_InstallFlagSkipsDatabase == InstallFlagOnly => ~DatabaseStepTaken

\* C7, amended: with --install and without --setup-db the question 'Set up
\* the database now?' is asked, its answer is yes exactly for y and yes in
\* any letter case, and the database step is taken only after that
\* question, answered yes.
C7_InstallFlagAsksForDatabase ==
    /\ [](InstallFlagOnly /\ DatabaseStepTaken
            => WasAsked("setupDb") /\ shouldSetupDb)
    /\ [][(InstallFlagOnly /\ pc = "resolveSetupDb")
            => /\ prompts' = Append(prompts, "setupDb")
               /\ shouldSetupDb' = (ToLowerCase(Trim(lastLine')) \in {"y", "yes"})]_vars

\* --install alone, no to the question, a target with .env: no push.
C7_Witness ==
    /\ Succeeded
    /\ InstallFlagOnly
    /\ WasAsked("setupDb")
    /\ ~shouldSetupDb
    /\ join(targetDir, ".env") \in DOMAIN fs
    /\ ~WasStarted("npm run db:push")

-----------------------------------------------------------------------------
(* C8 *)

\* C8: the database step is taken only when install and setup-db both
\* resolved to true; without install, npm run db:push is never started.
C8_DatabaseNeedsInstall ==
    /\ DatabaseStepTaken => (shouldInstall /\ shouldSetupDb)
    /\ (Materialising \/ Succeeded) /\ ~shouldInstall => ~WasStarted("npm run db:push")

\* --setup-db passed, install declined: the run succeeds with no subprocess.
C8_Witness ==
    /\ Succeeded
    /\ \E i \in DOMAIN args : args[i] \in {"--setup-db", "--db"}
    /\ shouldSetupDb
    /\ ~shouldInstall
    /\ join(targetDir, ".env") \in DOMAIN fs
    /\ procs = <<>>

-----------------------------------------------------------------------------
(* C9 *)

AdapterDescriptors ==
    ("vercel" :> [name |-> "Vercel", value |-> "vercel", pkg |-> "@astrojs/vercel"])
    @@ ("netlify" :> [name |-> "Netlify", value |-> "netlify", pkg |-> "@astrojs/netlify"])
    @@ ("cloudflare" :> [name |-> "Cloudflare", value |-> "cloudflare",
                         pkg |-> "@astrojs/cloudflare"])
    @@ ("node" :> [name |-> "Node", value |-> "node", pkg |-> "@astrojs/node"])
    @@ ("static" :> [name |-> "Static (no adapter)", value |-> "static", pkg |-> Null])

MenuChoice ==
    ("1" :> "vercel") @@ ("2" :> "netlify") @@ ("3" :> "cloudflare")
    @@ ("4" :> "node") @@ ("5" :> "static")

\* The argument after the first --adapter or -a, in lower case, if any.
GivenAdapter ==
    LET at == {i \in DOMAIN args : args[i] \in {"--adapter", "-a"}}
        i == (CHOOSE k \in at : \A j \in at : k <= j) + 1
    IN IF at # {} /\ i \in DOMAIN args THEN ToLowerCase(args[i]) ELSE Null

\* C9: when the adapter has been resolved it is one of the five
\* descriptors: the one the flag names; vercel, with a warning, for a flag
\* value outside the five; from the menu the one numbered 1 to 5, and
\* vercel for an empty or any other answer.
C9_AdapterResolution ==
    pc = "createProject"
    => /\ selectedAdapter \in Range(AdapterDescriptors)
       /\ GivenAdapter \in AdapterValues
            => selectedAdapter = AdapterDescriptors[GivenAdapter]
       /\ GivenAdapter \notin AdapterValues \cup {Null}
            => /\ selectedAdapter = AdapterDescriptors["vercel"]
               /\ "warning: invalid adapter" \in out
       /\ GivenAdapter = Null
            => /\ WasAsked("adapter")
               /\ selectedAdapter =
                    AdapterDescriptors[IF lastLine \in DOMAIN MenuChoice
                                       THEN MenuChoice[lastLine] ELSE "vercel"]

-----------------------------------------------------------------------------
(* C10 *)

\* C10: after npm install has failed the warning is written, the run goes
\* on with step 7 and ends with the success summary and status 0.
C10_InstallFailureNotFatal ==
    HasFailed("npm install")
    => /\ "warning: install failed" \in out
       /\ pc \in {"step7", "summary", "step8", "exited"}
       /\ pc = "exited" => ("success" \in out /\ exitCode = <<0>>)

\* npm install failed, the database step was still taken, the run succeeded.
C10_Witness ==
    /\ Succeeded
    /\ exitCode = <<0>>
    /\ HasFailed("npm install")
    /\ WasStarted("npm run db:push")

-----------------------------------------------------------------------------
(* C11 *)

\* npm install was started and ended with status 0.
InstallSucceeded ==
    \E i \in DOMAIN procs : procs[i].command = "npm install" /\ procs[i].ok

\* C11: the 'Login to Vercel now?' prompt is shown, and npx vercel login
\* started, only in a run whose npm install succeeded: never when install
\* was not requested and never after a failed npm install.
C11_LoginOnlyAfterInstallSucceeded ==
    (WasAsked("vercelLogin") \/ WasStarted("npx vercel login"))
    => InstallSucceeded

-----------------------------------------------------------------------------
(* C12 *)

\* The target's .env file.
envPath == join(targetDir, ".env")

\* C12: setupDatabase looks for .env before any subprocess: without .env it
\* warns and returns with no subprocess started; a failed npm run db:push is
\* caught, and the run goes on to the success summary and ends with status 0.
C12_DatabaseSetupGuarded ==
    /\ [][(pc = "step7" /\ flags.setupDb /\ flags.install
            /\ envPath \notin DOMAIN fs)
          => /\ procs' = procs
             /\ "warning: no .env" \in out'
             /\ pc' = "summary"]_vars
    /\ [](WasStarted("npm run db:push") => envPath \in DOMAIN fs)
    /\ [](HasFailed("npm run db:push")
            => /\ "error: schema push failed" \in out
               /\ pc \in {"summary", "step8", "exited"}
               /\ pc = "exited" => ("success" \in out /\ exitCode = <<0>>))

\* Database setup was asked for with no .env in the target: the warning was
\* written, no push was started and the run succeeded.
C12_Witness ==
    /\ Succeeded
    /\ flags.setupDb /\ flags.install
    /\ envPath \notin DOMAIN fs
    /\ "warning: no .env" \in out
    /\ ~WasStarted("npm run db:push")

\* The push was started and failed, and the run still succeeded.
C12_WitnessFailedPush ==
    Succeeded /\ HasFailed("npm run db:push") /\ envPath \in DOMAIN fs

-----------------------------------------------------------------------------
(* C13 *)

\* createProject's catch has run.
CreateProjectFailed == "error: failed to create project" \in out

\* C13: an exception in the materialisation that no step catches (the
\* package.json of the target cannot be read, or the rewrite of the manifest
\* throws) is caught at the top of createProject: the process exits with
\* status 1, and nothing is rolled back: the step that fails leaves the file
\* system as it was, so the target directory made before is still there.
C13_UncaughtFailureExitsOne ==
    /\ [](CreateProjectFailed
            => /\ pc = "exited"
               /\ exitCode = <<1>>
               /\ targetDir \in DOMAIN fs
               /\ fs[targetDir] = Dir)
    /\ [][(CreateProjectFailed' /\ ~CreateProjectFailed) => fs' = fs]_vars

\* The run failed at step 4 after the directory and its src tree were made.
C13_Witness ==
    /\ CreateProjectFailed
    /\ exitCode = <<1>>
    /\ join(targetDir, "src") \in DOMAIN fs
    /\ join(targetDir, "astro.config.mjs") \in DOMAIN fs

-----------------------------------------------------------------------------
(* C14 *)

\* C14: no subprocess is retried: each of npm install, npm run db:push and
\* npx vercel login is started at most once in a run, also after it failed.
C14_NoRetry ==
    \A i, j \in DOMAIN procs :
        procs[i].command = procs[j].command => i = j

\* All three subprocesses were started, each one failed, and the run ended.
C14_Witness ==
    /\ pc = "exited"
    /\ Len(procs) = 3
    /\ \A i \in DOMAIN procs : ~procs[i].ok

-----------------------------------------------------------------------------
(* C15 *)

envExamplePath == join(targetDir, ".env.example")

\* The target has both environment files, with the same content.
BothEnvFiles ==
    /\ envExamplePath \in DOMAIN fs
    /\ envPath \in DOMAIN fs
    /\ fs[envPath] = fs[envExamplePath]

-----------------------------------------------------------------------------
(* C16 *)

\* The top-level template files that the template does not have.
MissingTemplateFiles ==
    {filesToCopy[i] : i \in {k \in DOMAIN filesToCopy :
                                join(appDir, filesToCopy[k]) \notin DOMAIN fs}}

\* C16: a file of filesToCopy that the template lacks is skipped silently
\* and the run does not fail because of it: createProject's catch is never
\* reached for want of a file in the target.
C16_MissingFileNotAnError ==
    \A file \in MissingTemplateFiles :
        ~(CreateProjectFailed /\ join(targetDir, file) \notin DOMAIN fs)

-----------------------------------------------------------------------------
(* C17 *)

\* The install option has been resolved.
InstallResolved == pc \notin {"main", "promptName", "resolveInstall"}

\* C17: when the install option resolves to false (no --install/-i, and no
\* to the install prompt) no subprocess is started in the whole run, and
\* the login question is not asked.
C17_NoInstallNoSubprocess ==
    (InstallResolved /\ ~shouldInstall /\ ~installFlagPassed(args))
    => procs = <<>> /\ ~WasAsked("vercelLogin")

\* The user declined the install although --setup-db was given; the run
\* succeeded with nothing started.
C17_Witness ==
    /\ Succeeded
    /\ WasAsked("install")
    /\ ~shouldInstall
    /\ shouldSetupDb
    /\ procs = <<>>

-----------------------------------------------------------------------------
(* C18 *)

\* No argument is a positional one: every argument starts with '-'.
NoPositionalArgument == \A i \in DOMAIN args : StartsWith(args[i], "-")

\* C18: when the argument list holds no positional project name, the empty
\* list included (and no help or version flag), the run asks for the
\* project name before anything else; an empty answer ends the process
\* with status 1.
C18_NamePromptedWhenAbsent ==
    /\ []((NoPositionalArgument /\ ~HelpOrVersionFlag
            /\ pc \notin {"main", "promptName"})
           => /\ prompts # <<>>
              /\ prompts[1] = "projectName")
    /\ [][(prompts' = Append(prompts, "projectName") /\ Trim(lastLine') = "")
          => (pc' = "exited" /\ exitCode' = <<1>>)]_vars

-----------------------------------------------------------------------------
(* C19 *)

\* The name, --install, --setup-db and a valid --adapter are all given.
AllOptionsGiven ==
    /\ ~HelpOrVersionFlag
    /\ args # <<>>
    /\ ~StartsWith(args[1], "-")
    /\ \E i \in DOMAIN args : args[i] \in {"--install", "-i"}
    /\ \E i \in DOMAIN args : args[i] \in {"--setup-db", "--db"}
    /\ GivenAdapter \in DOMAIN AdapterDescriptors

\* C19: with the name, --install, --setup-db and a valid --adapter on the
\* command line no question is asked at any point of the run.
C19_FullyAutomatic == AllOptionsGiven => prompts = <<>>

-----------------------------------------------------------------------------
(* C20 *)

\* The answer counts as yes: y or yes in any letter case.
SaysYes(answer) == ToLowerCase(answer) \in {"y", "yes"}

\* C20: with --install or -i the install option becomes true and the
\* install question is not asked; without them the question is asked once
\* and the option is true for an empty answer (the default, yes) and for
\* y or yes in any letter case, and false for every other answer; nothing
\* later changes the option.
C20_InstallResolution ==
    /\ [][pc = "resolveInstall"
          => IF \E i \in DOMAIN args : args[i] \in {"--install", "-i"}
             THEN shouldInstall' /\ prompts' = prompts
             ELSE /\ prompts' = Append(prompts, "install")
                  /\ shouldInstall' = (Trim(lastLine') = ""
                                          \/ SaysYes(Trim(lastLine')))]_vars
    /\ [][pc # "resolveInstall" => shouldInstall' = shouldInstall]_vars
    /\ [](Cardinality({i \in DOMAIN prompts : prompts[i] = "install"}) <= 1)

\* The install question was just answered ' YES ' and the option is true.
C20_Witness ==
    /\ pc = "resolveSetupDb"
    /\ prompts # <<>>
    /\ prompts[Len(prompts)] = "install"
    /\ lastLine = " YES "
    /\ shouldInstall

\* The install question was just answered 'n' and the option is false.
C20_WitnessNo ==
    /\ pc = "resolveSetupDb"
    /\ prompts # <<>>
    /\ prompts[Len(prompts)] = "install"
    /\ lastLine = "n"
    /\ ~shouldInstall

-----------------------------------------------------------------------------
(* C21 *)

SetupDbFlagGiven == \E i \in DOMAIN args : args[i] \in {"--setup-db", "--db"}

\* C21: the 'Set up the database now?' question is asked exactly when the
\* install option resolved to true and neither --setup-db nor --db was
\* given, and only in the setup-db resolution; with install false it is
\* never asked; an empty answer to it makes setup-db false.
C21_SetupDbPrompt ==
    /\ [][pc = "resolveSetupDb"
          => IF shouldInstall /\ ~SetupDbFlagGiven
             THEN /\ prompts' = Append(prompts, "setupDb")
                  /\ Trim(lastLine') = "" => ~shouldSetupDb'
             ELSE prompts' = prompts]_vars
    /\ [][pc # "resolveSetupDb"
          => \/ prompts' = prompts
             \/ prompts'[Len(prompts')] # "setupDb"]_vars
    /\ [](WasAsked("setupDb") => shouldInstall /\ ~SetupDbFlagGiven)

\* The question was just answered with an empty line: setup-db is false.
C21_Witness ==
    /\ pc = "resolveAdapter"
    /\ prompts # <<>>
    /\ prompts[Len(prompts)] = "setupDb"
    /\ lastLine = ""
    /\ shouldInstall
    /\ ~shouldSetupDb

-----------------------------------------------------------------------------
(* The content converter (src/unnamed/part_003).  A text is the sequence   *)
(* of its characters; a tag of the HTML that marked gives is one element.  *)

\* The longest body of a markdown input.
MaxText == 4

\* The largest maxLength passed to generateExcerpt.
MaxLength == 5

\* White space, as String.prototype.trim sees it.
WhiteSpace == {" ", "\n"}

\* String.prototype.trim
trim(text) ==
    LET inked == {i \in DOMAIN text : text[i] \notin WhiteSpace}
    IN IF inked = {} THEN <<>>
       ELSE SubSeq(text, Least(inked), CHOOSE i \in inked : \A j \in inked : j <= i)

\* String.prototype.slice(start, end), for 0 <= start <= end
slice(text, start, end) ==
    SubSeq(text, start + 1, IF end < Len(text) THEN end ELSE Len(text))

\* String.prototype.lastIndexOf: the index from 0, or -1
lastIndexOf(text, c) ==
    LET at == {i \in DOMAIN text : text[i] = c}
    IN IF at = {} THEN -1
       ELSE (CHOOSE i \in at : \A j \in at : j <= i) - 1

\* The number of blanks a line starts with.
Indentation(text) ==
    IF \A i \in DOMAIN text : text[i] = " " THEN Len(text)
    ELSE Least({i \in DOMAIN text : text[i] # " "}) - 1

\* marked.parse of a single line: an ATX heading, an indented code block,
\* a paragraph, or nothing for a blank line.
markedParse(markdown) ==
    IF Len(markdown) >= 2 /\ SubSeq(markdown, 1, 2) = <<"#", " ">>
    THEN <<"<h1>">> \o trim(SubSeq(markdown, 3, Len(markdown))) \o <<"</h1>", "\n">>
    ELSE IF trim(markdown) = <<>> THEN <<>>
    ELSE IF Indentation(markdown) >= 4
    THEN <<"<pre>", "<code>">> \o SubSeq(markdown, 5, Len(markdown))
         \o <<"\n", "</code>", "</pre>", "\n">>
    ELSE <<"<p>">> \o trim(markdown) \o <<"</p>", "\n">>

Tags == {"<h1>", "</h1>", "<p>", "</p>", "<pre>", "</pre>", "<code>", "</code>"}

\* html.replace(/<[^>]*>/g, '')
removeTags(html) == SelectSeq(html, LAMBDA c : c \notin Tags)

\* markdownToPlainText: the HTML of marked without its tags, trimmed.
markdownToPlainText(markdown) == trim(removeTags(markedParse(markdown)))

Ellipsis == <<".", ".", ".">>

\* generateExcerpt(markdown, maxLength)
generateExcerpt(markdown, maxLength) ==
    LET plainText == markdownToPlainText(markdown)
        truncated == slice(plainText, 0, maxLength)
        lastSpace == lastIndexOf(truncated, " ")
    IN IF Len(plainText) <= maxLength THEN plainText
       ELSE IF lastSpace > 0 THEN slice(truncated, 0, lastSpace) \o Ellipsis
       ELSE truncated \o Ellipsis

\* The markdown inputs: a line of at most MaxText characters, as it is or
\* as the text of a heading.
Bodies == SeqsUpTo({"a", "b", " "}, MaxText)

Markdowns == Bodies \cup {<<"#", " ">> \o body : body \in Bodies}

\* The keys generateAstroConfig is called with.
ConfigKeys ==
    AdapterValues \cup {"bogus", "", "Vercel", Undefined,
                        "constructor", "toString", "__proto__"}

-----------------------------------------------------------------------------
(* The pure functions, each applied to every input of its bounded set.     *)

\* The command line program is not running.
CliIdle ==
    /\ args = <<>>
    /\ pc = "idle"
    /\ projectName = Undefined
    /\ shouldInstall = FALSE
    /\ shouldSetupDb = FALSE
    /\ selectedAdapter = NoAdapter
    /\ fs = <<>>
    /\ prompts = <<>>
    /\ lastLine = Undefined
    /\ procs = <<>>
    /\ out = {}
    /\ exitCode = <<>>

\* No request has reached /api/posts.
ApiIdle == posts = <<>> /\ clock = 0 /\ response = <<>>

Calls ==
    {[fn |-> "generateExcerpt", input |-> <<markdown, maxLength>>,
      returned |-> FALSE, result |-> <<>>] :
        markdown \in Markdowns, maxLength \in 0..MaxLength}
    \cup {[fn |-> "generateAstroConfig", input |-> <<adapter>>,
           returned |-> FALSE, result |-> <<>>] : adapter \in ConfigKeys}

PureInit ==
    /\ CliIdle
    /\ ApiIdle
    /\ frames = <<>>
    /\ call \in Calls

CallGenerateExcerpt ==
    /\ call.fn = "generateExcerpt"
    /\ ~call.returned
    /\ call' = [call EXCEPT !.returned = TRUE,
                            !.result = generateExcerpt(call.input[1], call.input[2])]
    /\ UNCHANGED <<cliVars, apiVars, frames>>

CallGenerateAstroConfig ==
    /\ call.fn = "generateAstroConfig"
    /\ ~call.returned
    /\ call' = [call EXCEPT !.returned = TRUE,
                            !.result = generateAstroConfig(call.input[1])]
    /\ UNCHANGED <<cliVars, apiVars, frames>>

PureNext ==
    \/ CallGenerateExcerpt
    \/ CallGenerateAstroConfig

PureSpec == PureInit /\ [][PureNext]_vars

-----------------------------------------------------------------------------
(* C22 *)

\* generateAstroConfig has returned for the key.
ConfigReturned == call # <<>> /\ call.fn = "generateAstroConfig" /\ call.returned

-----------------------------------------------------------------------------
(* C23 *)

\* The steps of createProject in the order of the code, and the end.
StepOrder ==
    <<"createProject", "step2", "step3", "generateConfig", "copyDirs",
      "step4", "step5", "step6", "step7", "summary", "step8", "exited">>

StepRank(p) == CHOOSE i \in DOMAIN StepOrder : StepOrder[i] = p

InCreateProject(p) == \E i \in DOMAIN StepOrder : StepOrder[i] = p

\* The place of the first start of the command among the subprocesses.
StartOf(command) ==
    CHOOSE i \in DOMAIN procs : procs[i].command = command

\* C23: createProject goes through its steps in one order and never back:
\* check of the target, mkdir, copy of the files, generated config, copy
\* of the directories, package.json rewrite, .env, npm install, database
\* push, login.  npm install starts only after package.json was rewritten,
\* npm run db:push only after the install step has ended, and the login
\* only after the summary.
C23_LinearSteps ==
    /\ [][(InCreateProject(pc) /\ pc' # pc)
          => (InCreateProject(pc') /\ StepRank(pc') > StepRank(pc))]_vars
    /\ [](WasStarted("npm install")
            => /\ "package.json updated" \in out
               /\ StepRank(pc) > StepRank("step6"))
    /\ [](WasStarted("npm run db:push")
            => /\ StepRank(pc) > StepRank("step7")
               /\ WasStarted("npm install")
               /\ StartOf("npm install") < StartOf("npm run db:push"))
    /\ [](WasStarted("npx vercel login")
            => /\ "success" \in out
               /\ \A i \in DOMAIN procs : i <= StartOf("npx vercel login"))
    /\ [][(fs' # fs /\ InCreateProject(pc))
          => StepRank(pc) \in StepRank("step2")..StepRank("step5")]_vars

\* A run that took every step: all three subprocesses were started.
C23_Witness ==
    /\ pc = "exited"
    /\ "success" \in out
    /\ WasStarted("npm install")
    /\ WasStarted("npm run db:push")
    /\ WasStarted("npx vercel login")
    /\ ".env created" \in out

-----------------------------------------------------------------------------
(* C24 *)

\* The package.json of the target, and that of the template.
TargetManifest == fs[join(targetDir, "package.json")]

TemplateManifest == fs[join(appDir, "package.json")]

\* Step 4 has rewritten package.json.
ManifestRewritten == "package.json updated" \in out

NonStaticAdapters == {"vercel", "netlify", "cloudflare", "node"}

\* C24: once package.json has been rewritten for the vercel, netlify,
\* cloudflare or node adapter, its dependencies have the entry
\* @astrojs/<adapter>, and they have @astrojs/vercel exactly when the
\* adapter is vercel, whatever dependencies the template manifest had.
C24_AdapterDependency ==
    (ManifestRewritten /\ selectedAdapter.value \in NonStaticAdapters)
    => /\ TargetManifest.hasDeps
       /\ Concat("@astrojs/", selectedAdapter.value) \in DOMAIN TargetManifest.deps
       /\ ("@astrojs/vercel" \in DOMAIN TargetManifest.deps)
            <=> (selectedAdapter.value = "vercel")

\* The template listed @astrojs/vercel; rewritten for netlify the manifest
\* lists @astrojs/netlify and no longer @astrojs/vercel.
C24_Witness ==
    /\ ManifestRewritten
    /\ selectedAdapter.value = "netlify"
    /\ "@astrojs/vercel" \in DOMAIN TemplateManifest.deps
    /\ "@astrojs/netlify" \notin DOMAIN TemplateManifest.deps
    /\ DOMAIN TargetManifest.deps \cap AdapterPackages = {"@astrojs/netlify"}

\* The template manifest had no dependencies object; rewritten for vercel
\* the manifest lists @astrojs/vercel.
C24_WitnessNoDependencies ==
    /\ ManifestRewritten
    /\ selectedAdapter.value = "vercel"
    /\ ~TemplateManifest.hasDeps
    /\ "@astrojs/vercel" \in DOMAIN TargetManifest.deps

-----------------------------------------------------------------------------
(* copyDirectory, call by call.  A frame is one call in progress: its      *)
(* arguments and the entries of readdir that its loop has still to take.   *)

\* The longest path the file system accepts, in names: mkdir and copyFile
\* of a longer path fail with ENAMETOOLONG.
MaxDepth == 9

\* The file system refuses the path.
pathTooLong(path) == Len(path) > MaxDepth

\* const srcPath = join(appDir, dir), for dir = 'src'
srcDir == join(appDir, "src")

\* readdir(path, { withFileTypes: true }): the entries with their kind
\* at the time of the call.
dirents(f, path) ==
    {[name |-> n, isDirectory |-> IsDirectory(f, join(path, n))] :
        n \in readdir(f, path)}

\* The start of copyDirectory(src, dest): mkdir, readdir, and the frame.
enter(f, src, dest) ==
    LET g == mkdir(f, dest)
    IN [fs |-> g,
        frame |-> [src |-> src, dest |-> dest, entries |-> dirents(g, src)]]

\* What the src directory of a template holds, as paths below it.
SourceShapes ==
    {{},
     {<<<<"env.d.ts">>, TextFile("env.d.ts")>>},
     {<<<<"env.d.ts">>, TextFile("env.d.ts")>>,
      <<<<"lib">>, Dir>>,
      <<<<"lib", "config.ts">>, TextFile("config.ts")>>},
     {<<<<"env.d.ts">>, TextFile("env.d.ts")>>,
      <<<<"lib">>, Dir>>,
      <<<<"lib", "db">>, Dir>>,
      <<<<"lib", "db", "schema.ts">>, TextFile("schema.ts")>>}}

\* The target directories: in the working directory, beside the template's
\* src, and inside it.
CopyTargets ==
    {join(cwd, "my-app"), join(appDir, "my-app"),
     join(srcDir, "my-app"), srcDir \o <<"lib", "my-app">>}

\* The file system when createProject comes to copy src: the template, and
\* the target with the generated astro.config.mjs.
CopyFs(shape, target) ==
    writeFile(mkdir(mkdir(FsOf({<<srcDir \o p[1], p[2]>> : p \in shape}), srcDir),
                    target),
              join(target, "astro.config.mjs"), generateAstroConfig("vercel"))

CopyInit ==
    /\ \E shape \in SourceShapes, target \in CopyTargets :
         /\ fs = CopyFs(shape, target)
         /\ call = [fn |-> "copyDirectory",
                    input |-> <<srcDir, join(target, "src")>>,
                    returned |-> FALSE, result |-> <<>>]
    /\ pc = "copyDirectory"
    /\ frames = <<>>
    /\ args = <<>>
    /\ projectName = "my-app"
    /\ shouldInstall = FALSE
    /\ shouldSetupDb = FALSE
    /\ selectedAdapter = NoAdapter
    /\ prompts = <<>>
    /\ lastLine = Undefined
    /\ procs = <<>>
    /\ out = {}
    /\ exitCode = <<>>
    /\ ApiIdle

\* What a step of copyDirectory leaves alone.
copyUnchanged ==
    <<args, projectName, shouldInstall, shouldSetupDb, selectedAdapter,
      prompts, lastLine, procs, out, exitCode, posts, clock, response>>

\* await copyDirectory(srcPath, destPath), called by createProject
CallCopyDirectory ==
    /\ pc = "copyDirectory"
    /\ ~pathTooLong(call.input[2])
    /\ LET e == enter(fs, call.input[1], call.input[2])
       IN fs' = e.fs /\ frames' = <<e.frame>>
    /\ pc' = "copying"
    /\ UNCHANGED <<call, copyUnchanged>>

\* The loop takes an entry that is a file: copyFile(srcPath, destPath)
CopyFileEntry ==
    /\ pc = "copying"
    /\ LET n == Len(frames)
           top == frames[n]
       IN \E entry \in top.entries :
            /\ ~entry.isDirectory
            /\ ~pathTooLong(join(top.dest, entry.name))
            /\ fs' = copyFile(fs, join(top.src, entry.name), join(top.dest, entry.name))
            /\ frames' = [frames EXCEPT ![n].entries = @ \ {entry}]
    /\ UNCHANGED <<pc, call, copyUnchanged>>

\* The loop takes an entry that is a directory: copyDirectory calls itself
EnterDirectoryEntry ==
    /\ pc = "copying"
    /\ LET n == Len(frames)
           top == frames[n]
       IN \E entry \in top.entries :
            /\ entry.isDirectory
            /\ ~pathTooLong(join(top.dest, entry.name))
            /\ LET e == enter(fs, join(top.src, entry.name), join(top.dest, entry.name))
               IN /\ fs' = e.fs
                  /\ frames' = Append([frames EXCEPT ![n].entries = @ \ {entry}],
                                      e.frame)
    /\ UNCHANGED <<pc, call, copyUnchanged>>

\* The loop has taken every entry: the call returns to its caller.
ReturnFromCopyDirectory ==
    /\ pc = "copying"
    /\ frames[Len(frames)].entries = {}
    /\ frames' = SubSeq(frames, 1, Len(frames) - 1)
    /\ IF Len(frames) = 1
       THEN pc' = "returned" /\ call' = [call EXCEPT !.returned = TRUE]
       ELSE UNCHANGED <<pc, call>>
    /\ UNCHANGED <<fs, copyUnchanged>>

\* The failure swallowed and the copy begun again from its start.
CopyFails_StartsAgain ==
    /\ pc = "copying"
    /\ \E entry \in frames[Len(frames)].entries :
         pathTooLong(join(frames[Len(frames)].dest, entry.name))
    /\ frames' = <<>>
    /\ pc' = "copyDirectory"
    /\ UNCHANGED <<fs, out, exitCode, call>>
    /\ UNCHANGED <<args, projectName, shouldInstall, shouldSetupDb,
                   selectedAdapter, prompts, lastLine, procs, posts, clock,
                   response>>

\* mkdir or copyFile of the entry fails on the length of the path: no call
\* of copyDirectory catches the error, createProject's catch does.
CopyFails ==
    /\ pc = "copying"
    /\ \E entry \in frames[Len(frames)].entries :
         pathTooLong(join(frames[Len(frames)].dest, entry.name))
    /\ frames' = <<>>
    /\ Fail
    /\ UNCHANGED <<fs, call>>
    /\ UNCHANGED <<args, projectName, shouldInstall, shouldSetupDb,
                   selectedAdapter, prompts, lastLine, procs, posts, clock,
                   response>>

CopyNext ==
    \/ CallCopyDirectory
    \/ CopyFileEntry
    \/ EnterDirectoryEntry
    \/ ReturnFromCopyDirectory
    \/ CopyFails

CopySpec == CopyInit /\ [][CopyNext]_vars

\* Each call goes on when it can: an await is never left pending.
CopyLiveSpec == CopySpec /\ WF_vars(CopyNext)

-----------------------------------------------------------------------------
(* C25 *)

\* p is q or a directory above q.
IsPrefix(p, q) == Len(p) <= Len(q) /\ SubSeq(q, 1, Len(p)) = p

\* The paths of the tree below root, relative to root.
TreeOf(f, root) ==
    {SubSeq(q, Len(root) + 1, Len(q)) :
        q \in {r \in DOMAIN f : Len(r) > Len(root) /\ IsPrefix(root, r)}}

\* The arguments of the call of copyDirectory.
copySrc == call.input[1]

copyDest == call.input[2]

\* copyDirectory(src, dest) is the call, and dest is not inside src.
CopyOutside ==
    /\ call # <<>>
    /\ call.fn = "copyDirectory"
    /\ ~IsPrefix(copySrc, copyDest)

\* C25: copyDirectory(src, dest) with dest outside the source tree returns
\* with dest holding exactly the relative paths of src, each file with the
\* content of its source and each directory a directory; every path it
\* makes lies in a directory made before; and it changes nothing in src.
C25_CopyIsFaithful ==
    /\ []((CopyOutside /\ call.returned)
           => /\ TreeOf(fs, copyDest) = TreeOf(fs, copySrc)
              /\ \A rel \in TreeOf(fs, copySrc) :
                    fs[copyDest \o rel] = fs[copySrc \o rel])
    /\ [](CopyOutside
           => \A q \in DOMAIN fs :
                 Len(q) > 1 => IsDirectory(fs, SubSeq(q, 1, Len(q) - 1)))
    /\ [][CopyOutside
          => /\ TreeOf(fs', copySrc) = TreeOf(fs, copySrc)
             /\ \A rel \in TreeOf(fs, copySrc) :
                   fs'[copySrc \o rel] = fs[copySrc \o rel]]_vars

\* The copy of a tree with a file two directories down has returned, and
\* the file is in the target.
C25_Witness ==
    /\ CopyOutside
    /\ call.returned
    /\ copyDest = <<"work", "my-app", "src">>
    /\ copyDest \o <<"lib", "db", "schema.ts">> \in DOMAIN fs
    /\ fs[copyDest \o <<"lib", "db", "schema.ts">>] = TextFile("schema.ts")
    /\ frames = <<>>

-----------------------------------------------------------------------------
(* C26 *)

\* The step writes the file of the target: it makes it or changes it.
\* (Step 4 always changes package.json, for no project name is the
\* template's name.)
Overwritten(file) ==
    /\ join(targetDir, file) \in DOMAIN fs
    /\ fs'[join(targetDir, file)] # fs[join(targetDir, file)]

\* C26 as stated: once package.json, astro.config.mjs or .env of the
\* target has been written no later step writes it again.
C26_WriteOnce ==
    [][InCreateProject(pc)
       => \A file \in {"package.json", "astro.config.mjs", ".env"} :
             ~Overwritten(file)]_vars

\* C26: astro.config.mjs and .env of the target are written once; the
\* target's package.json is written by step 3 (the copy of the template's)
\* and written again by step 4 and by no other step, so that a run which
\* succeeds has a package.json that is no longer the template's.
C26_ManifestWrittenTwice ==
    /\ [][InCreateProject(pc)
          => /\ ~Overwritten("astro.config.mjs")
             /\ ~Overwritten(".env")
             /\ Overwritten("package.json")
                  => (pc = "step4" /\ pc' = "step5"
                      /\ fs[join(targetDir, "package.json")] = TemplateManifest)]_vars
    /\ [](Succeeded
            => /\ TargetManifest # TemplateManifest
               /\ TargetManifest.name = projectName)

\* Step 4 has written package.json over the copy that step 3 made.
C26_Witness ==
    /\ pc = "step5"
    /\ ManifestRewritten
    /\ TargetManifest.name = projectName
    /\ TemplateManifest.name = TemplateName
    /\ join(targetDir, "astro.config.mjs") \in DOMAIN fs

-----------------------------------------------------------------------------
(* C27 *)

\* The project name was taken from the argument list, not from the prompt.
NameFromArguments ==
    /\ pc \notin {"main", "promptName", "idle", "copyDirectory", "copying",
                  "returned"}
    /\ args # <<>>
    /\ ~HelpOrVersionFlag
    /\ ~WasAsked("projectName")

\* The places of --adapter and -a in the argument list.
AdapterFlagPlaces == {i \in DOMAIN args : args[i] \in {"--adapter", "-a"}}

\* The place of the argument taken as the project name.
NamePlace == CHOOSE i \in DOMAIN args :
                 /\ args[i] = projectName
                 /\ \A j \in DOMAIN args : args[j] = projectName => i <= j

\* C27: the argument that follows --adapter or -a is the adapter's value
\* and is never taken as the project name, whatever its letter case and
\* wherever the positional name stands.
C27_AdapterValueIsNotTheName ==
    (NameFromArguments /\ AdapterFlagPlaces # {})
    => NamePlace # (CHOOSE i \in AdapterFlagPlaces :
                        \A j \in AdapterFlagPlaces : i <= j) + 1

-----------------------------------------------------------------------------
(* C28 *)

\* The target directory lies inside the directory that is copied.
CopyInside == call # <<>> /\ call.fn = "copyDirectory" /\ IsPrefix(copySrc, copyDest)

C28_CopyOutsideReturns == CopyOutside ~> call.returned

-----------------------------------------------------------------------------
(* /api/posts (src/unnamed/part_002): POST and PUT over the posts table.   *)
(* A row is kept by the place of its insertion, which stands for its id; a *)
(* timestamp is <<>> for null and <<t>> for the time t.  The value of a    *)
(* JSON body property is given as it is written: "true", "false",          *)
(* "undefined" when the property is absent.                                *)

\* The most rows the table gets.
MaxPosts == 2

\* The most requests handled.
MaxRequests == 4

\* The title property of a body: a title, the empty string, or absent.
BodyTitles == {"a", "b", "", "undefined"}

\* The published property of a body: a boolean, a string, or absent.
BodyPublished == {"true", "false", "'yes'", "undefined"}

\* The id property of a PUT body: the id of a row that may exist, or "x",
\* an id that is not 21 characters long.
BodyIds == {"1", "2", "3", "x"}

\* The row the id names, 0 when it is no id of 21 characters.
RowOf(id) == IF id = "1" THEN 1 ELSE IF id = "2" THEN 2 ELSE IF id = "3" THEN 3 ELSE 0

\* createPostSchema.parse(body): title is required and not empty;
\* published is a boolean with the default false.
createPostSchema(body) ==
    IF body.title \in {"", "undefined"} \/ body.published = "'yes'"
    THEN [ok |-> FALSE]
    ELSE [ok |-> TRUE, title |-> body.title, published |-> body.published = "true"]

\* updatePostSchema.parse(body): createPostSchema.partial() with the id.
\* A property that is absent stays undefined: no default is filled in.
updatePostSchema(body) ==
    IF RowOf(body.id) = 0 \/ body.title = "" \/ body.published = "'yes'"
    THEN [ok |-> FALSE]
    ELSE [ok |-> TRUE, id |-> RowOf(body.id),
          hasTitle |-> body.title # "undefined", title |-> body.title,
          hasPublished |-> body.published # "undefined",
          published |-> body.published = "true"]

\* new Date()
now == <<clock + 1>>

\* The response, with the request it answers.
Responded(method, body, status) ==
    /\ response' = [method |-> method, body |-> body, status |-> status]
    /\ clock' = clock + 1

\* PUT that leaves publishedAt out of the update
PUT_WithoutPublishedAt ==
    /\ clock < MaxRequests
    /\ \E body \in [id : BodyIds, title : BodyTitles, published : BodyPublished] :
         LET validated == updatePostSchema(body)
         IN IF ~validated.ok
            THEN Responded("PUT", body, 400) /\ UNCHANGED posts
            ELSE IF validated.id \notin DOMAIN posts
            THEN Responded("PUT", body, 404) /\ UNCHANGED posts
            ELSE /\ posts' = [posts EXCEPT ![validated.id] =
                        [title |-> IF validated.hasTitle THEN validated.title ELSE @.title,
                         published |-> IF validated.hasPublished
                                       THEN validated.published ELSE @.published,
                         publishedAt |-> @.publishedAt,
                         updatedAt |-> now]]
                 /\ Responded("PUT", body, 200)
    /\ UNCHANGED <<cliVars, frames, call>>

\* POST /api/posts: the validated body is inserted, publishedAt set from
\* published.
POST ==
    /\ clock < MaxRequests
    /\ \E body \in [title : BodyTitles, published : BodyPublished] :
         LET validated == createPostSchema(body)
         IN IF ~validated.ok
            THEN Responded("POST", body, 400) /\ UNCHANGED posts
            ELSE /\ Len(posts) < MaxPosts
                 /\ posts' = Append(posts,
                        [title |-> validated.title,
                         published |-> validated.published,
                         publishedAt |-> IF validated.published THEN now ELSE <<>>,
                         updatedAt |-> now])
                 /\ Responded("POST", body, 201)
    /\ UNCHANGED <<cliVars, frames, call>>

\* PUT /api/posts: the properties of the validated body that are defined
\* are set on the row of the id; publishedAt follows published when
\* published is defined and is left alone when it is not.
PUT ==
    /\ clock < MaxRequests
    /\ \E body \in [id : BodyIds, title : BodyTitles, published : BodyPublished] :
         LET validated == updatePostSchema(body)
         IN IF ~validated.ok
            THEN Responded("PUT", body, 400) /\ UNCHANGED posts
            ELSE IF validated.id \notin DOMAIN posts
            THEN Responded("PUT", body, 404) /\ UNCHANGED posts
            ELSE /\ posts' = [posts EXCEPT ![validated.id] =
                        [title |-> IF validated.hasTitle THEN validated.title ELSE @.title,
                         published |-> IF validated.hasPublished
                                       THEN validated.published ELSE @.published,
                         publishedAt |-> IF validated.hasPublished
                                         THEN IF validated.published THEN now ELSE <<>>
                                         ELSE @.publishedAt,
                         updatedAt |-> now]]
                 /\ Responded("PUT", body, 200)
    /\ UNCHANGED <<cliVars, frames, call>>

PostsInit ==
    /\ CliIdle
    /\ ApiIdle
    /\ frames = <<>>
    /\ call = <<>>

PostsNext ==
    \/ POST
    \/ PUT

PostsSpec == PostsInit /\ [][PostsNext]_vars

-----------------------------------------------------------------------------
(* C29 *)

\* The latest request was a PUT that updated a row.
PutSucceeded ==
    response # <<>> /\ response.method = "PUT" /\ response.status = 200

\* C29: after any sequence of POST and PUT requests every row has
\* publishedAt set exactly when published is true; a POST that succeeds
\* adds a row whose publishedAt follows its published; a PUT with a
\* published value sets publishedAt to the time of the request or to null
\* accordingly; a PUT without one leaves published and publishedAt of the
\* row as they were; and a request that fails changes no row.
C29_PublishedAtFollowsPublished ==
    /\ [](\A i \in DOMAIN posts : (posts[i].publishedAt # <<>>) <=> posts[i].published)
    /\ [][clock' # clock
          => LET body == response'.body
                 i == RowOf(body.id)
             IN IF response'.method = "PUT" /\ response'.status = 200
                THEN IF body.published = "undefined"
                     THEN /\ posts'[i].published = posts[i].published
                          /\ posts'[i].publishedAt = posts[i].publishedAt
                     ELSE /\ posts'[i].published = (body.published = "true")
                          /\ posts'[i].publishedAt =
                                IF body.published = "true" THEN <<clock'>> ELSE <<>>
                ELSE IF response'.method = "POST" /\ response'.status = 201
                THEN /\ Len(posts') = Len(posts) + 1
                     /\ posts'[Len(posts')].published = (body.published = "true")
                     /\ SubSeq(posts', 1, Len(posts)) = posts
                ELSE posts' = posts]_vars

\* A published row was just updated by a PUT without a published value:
\* it is still published, with the time of its publication.
C29_Witness ==
    /\ PutSucceeded
    /\ response.body.published = "undefined"
    /\ response.body.title = "b"
    /\ posts[RowOf(response.body.id)].published
    /\ posts[RowOf(response.body.id)].publishedAt # <<>>
    /\ posts[RowOf(response.body.id)].publishedAt # posts[RowOf(response.body.id)].updatedAt
    /\ posts[RowOf(response.body.id)].title = "b"

\* A published row was unpublished by a PUT: publishedAt is null again.
C29_WitnessUnpublished ==
    /\ PutSucceeded
    /\ response.body.published = "false"
    /\ \E i \in DOMAIN posts : ~posts[i].published /\ posts[i].publishedAt = <<>>
    /\ clock = 2

-----------------------------------------------------------------------------
(* C30 *)

\* generateExcerpt has returned.
ExcerptReturned == call # <<>> /\ call.fn = "generateExcerpt" /\ call.returned

\* C30: the excerpt generateExcerpt(markdown, maxLength) returns is at most
\* maxLength characters long, and it is the plain text itself when the
\* plain text is at most maxLength characters long.
C30_ExcerptWithinMaxLength ==
    ExcerptReturned
    => /\ Len(call.result) <= call.input[2]
       /\ Len(markdownToPlainText(call.input[1])) <= call.input[2]
            => call.result = markdownToPlainText(call.input[1])

=============================================================================
